---- MODULE Spec2Model ----
(***************************************************************************)
(* Model of monitor.py (Mercor Job Monitor): one process invocation runs   *)
(* main(): load_config, load_seen_jobs, scrape_jobs, diff, send_email,     *)
(* save_seen_jobs.  The only state that survives a run is seen_jobs.json.  *)
(* Runs are invoked one after another by an external scheduler.            *)
(***************************************************************************)
EXTENDS Integers, Sequences, FiniteSets, TLC

\* ---- bounds of the model ----
MaxLen == 2        \* listing elements found on the page in one scrape
MaxRuns == 3       \* sequential invocations of the process

Ids == {"A", "B"}                          \* job ids (the part of href after list_)
Headings == {"none", "Data Labeler"}       \* text of the h3 child, "none" when there is no h3

\* A listing element as the browser hands it over: extraction either raises
\* somewhere (get_attribute / query_selector / inner_text) or yields href and h3.
Elements == [id : Ids, h3 : Headings, raises : {FALSE}] \cup
            {[id |-> "A", h3 |-> "none", raises |-> TRUE]}

RECURSIVE SeqsUpTo(_, _)
SeqsUpTo(S, n) ==
  IF n = 0 THEN {<<>>}
  ELSE LET shorter == SeqsUpTo(S, n - 1)
       IN shorter \cup {Append(s, x) : s \in {t \in shorter : Len(t) = n - 1}, x \in S}

ElementLists == SeqsUpTo(Elements, MaxLen)

SetOf(s) == {s[i] : i \in DOMAIN s}

\* ---- seen_jobs.json ----
\* state "absent": no file; "json": a JSON list of ids; "corrupt": opened for
\* writing (truncated) and not yet completely written.
Absent == [state |-> "absent", ids |-> <<>>]
Corrupt == [state |-> "corrupt", ids |-> <<>>]
JsonFile(ids) == [state |-> "json", ids |-> ids]

\* load_seen_jobs: [] when the file is absent, else json.load of the file.
LoadSeenJobs(f) == IF f.state = "absent" THEN <<>> ELSE f.ids
LoadSeenRaises(f) == f.state = "corrupt"

\* ---- scrape_jobs: the per-element loop ----
JobOf(e) ==
  [id |-> e.id, title |-> IF e.h3 = "none" THEN "Unknown Title" ELSE e.h3]

RECURSIVE ExtractJobs(_)
ExtractJobs(els) ==
  IF els = <<>> THEN <<>>
  ELSE IF Head(els).raises THEN ExtractJobs(Tail(els))
       ELSE <<JobOf(Head(els))>> \o ExtractJobs(Tail(els))

\* Steps of the browser session that can raise.
ScrapeSteps == {"launch", "new_page", "goto", "wait_for_selector", "query_selector_all"}
\* launch and new_page run before the try block; the rest run inside it.
InsideTry(step) == step \in {"goto", "wait_for_selector", "query_selector_all"}

\* ---- main: the guard, the diff and the merge ----
\* the guard left out: an empty scrape falls through to the diff
ShortCircuitNever(current) == FALSE

ShortCircuit(current) == current = <<>>

\* the title instead of the id looked up in the seen ids
NewJobsByTitle(current, seen_ids) == SelectSeq(current, LAMBDA job : job.title \notin seen_ids)

NewJobs(current, seen_ids) == SelectSeq(current, LAMBDA job : job.id \notin seen_ids)

\* the branch taken whether or not anything is new
HasNewJobsAlways(new) == TRUE

HasNewJobs(new) == new # <<>>

IdsOf(jobs) == [i \in DOMAIN jobs |-> jobs[i].id]

\* list(a_set): every element once, in an order the interpreter picks.
ListsOfSet(S) ==
  {s \in [1..Cardinality(S) -> S] : \A i, j \in DOMAIN s : i # j => s[i] # s[j]}

\* the save made additive by mistake: only the new ids are written
AllJobIdsNewOnly(seen_ids, new) == {IdsOf(new)}

AllJobIds(seen_ids, new) == {l \o IdsOf(new) : l \in ListsOfSet(seen_ids)}

\* ---- send_email ----
\* What goes wrong in one call: nothing, config has no 'email' key,
\* SMTP_PASSWORD is not set, or building / delivering the message raises.
NotifyErrors == {"none", "config_email", "smtp_password", "delivery"}

\* config['email'] is read before the try block; inside it the password check
\* returns early and every exception is caught.
\* the delivery not wrapped in try/except
SendEmailOutcomeUncaught(error) ==
  CASE error \in {"config_email", "delivery"} -> "raised"
    [] error = "smtp_password" -> "skipped"
    [] OTHER -> "sent"

SendEmailOutcome(error) ==
  CASE error = "config_email" -> "raised"
    [] error = "smtp_password" -> "skipped"
    [] error = "delivery" -> "failed"
    [] OTHER -> "sent"

VARIABLES
  pc,            \* position of the current run in main()
  run,           \* number of the current invocation
  JOBS_FILE,     \* contents of seen_jobs.json
  seen_jobs,     \* main's local
  current_jobs,  \* main's local
  new_jobs,      \* main's local
  all_job_ids,   \* main's local
  browser,       \* "not_launched", "launched", "closed" (browser.close() executed)
  scrape_error,  \* step of the browser session that raised, or "none"
  notify,        \* outcome of send_email in this run, or "none"
  notify_error,  \* what went wrong inside send_email, or "none"
  raised_in,     \* function whose exception left main(), or "none"
  killed_at,     \* position at which the process was killed, or "none"
  file0,         \* seen_jobs.json as it was when the run started
  diffs,         \* times the diff was computed in this run
  emails,        \* times send_email was invoked in this run
  saves,         \* times save_seen_jobs was invoked in this run
  reported,      \* ids in the new list of an earlier run
  unsent,        \* those of them whose send_email was skipped or failed
  abnormal,      \* some run so far did not terminate normally
  interrupted    \* the previous run when it was killed after send_email: its lists

vars == <<pc, run, JOBS_FILE, seen_jobs, current_jobs, new_jobs, all_job_ids,
          browser, scrape_error, notify, notify_error, raised_in, killed_at, file0, diffs,
          emails, saves, reported, unsent, abnormal, interrupted>>

NoRun == [valid |-> FALSE, current |-> <<>>, new |-> <<>>, file |-> Absent]

Terminal == {"End", "Exit1", "Raised", "Killed"}

Init ==
  /\ pc = "Start"
  /\ run = 1
  /\ JOBS_FILE = Absent
  /\ seen_jobs = <<>>
  /\ current_jobs = <<>>
  /\ new_jobs = <<>>
  /\ all_job_ids = <<>>
  /\ browser = "not_launched"
  /\ scrape_error = "none"
  /\ notify = "none"
  /\ notify_error = "none"
  /\ raised_in = "none"
  /\ killed_at = "none"
  /\ file0 = Absent
  /\ diffs = 0
  /\ emails = 0
  /\ saves = 0
  /\ reported = {}
  /\ unsent = {}
  /\ abnormal = FALSE
  /\ interrupted = NoRun

\* config = load_config(): exit(1) when config.json is absent, json.load raises
\* on malformed content, else the config (with or without the 'email' key,
\* which only send_email looks at).
LoadConfig ==
  /\ pc = "Start"
  /\ \E cfg \in {"absent", "malformed", "ok"} :
       /\ pc' = CASE cfg = "absent" -> "Exit1"
                  [] cfg = "malformed" -> "Raised"
                  [] OTHER -> "ConfigLoaded"
       /\ raised_in' = IF cfg = "malformed" THEN "load_config" ELSE raised_in
       /\ abnormal' = (abnormal \/ cfg # "ok")
  /\ UNCHANGED <<run, JOBS_FILE, seen_jobs, current_jobs, new_jobs, all_job_ids,
                 browser, scrape_error, notify, notify_error, killed_at, file0, diffs, emails,
                 saves, reported, unsent, interrupted>>

\* seen_jobs = load_seen_jobs()
LoadSeen ==
  /\ pc = "ConfigLoaded"
  /\ IF LoadSeenRaises(JOBS_FILE)
       THEN /\ pc' = "Raised"
            /\ raised_in' = "load_seen_jobs"
            /\ abnormal' = TRUE
            /\ UNCHANGED seen_jobs
       ELSE /\ pc' = "SeenLoaded"
            /\ seen_jobs' = LoadSeenJobs(JOBS_FILE)
            /\ UNCHANGED <<raised_in, abnormal>>
  /\ UNCHANGED <<run, JOBS_FILE, current_jobs, new_jobs, all_job_ids, browser,
                 scrape_error, notify, notify_error, killed_at, file0, diffs, emails, saves,
                 reported, unsent, interrupted>>

\* current_jobs = scrape_jobs(), a step of the session raising
ScrapeFails ==
  /\ pc = "SeenLoaded"
  /\ \E step \in ScrapeSteps :
       /\ scrape_error' = step
       /\ browser' = CASE step = "launch" -> "not_launched"
                       [] InsideTry(step) -> "closed"
                       [] OTHER -> "launched"
       /\ IF InsideTry(step)
            THEN /\ pc' = "ScrapeAttempted"
                 /\ current_jobs' = <<>>
                 /\ UNCHANGED <<raised_in, abnormal>>
            ELSE /\ pc' = "Raised"
                 /\ raised_in' = "scrape_jobs"
                 /\ abnormal' = TRUE
                 /\ UNCHANGED current_jobs
  /\ UNCHANGED <<run, JOBS_FILE, seen_jobs, new_jobs, all_job_ids, notify, notify_error,
                 killed_at, file0, diffs, emails, saves, reported, unsent, interrupted>>

\* current_jobs = scrape_jobs(), the session getting as far as the element loop
ScrapeOK ==
  /\ pc = "SeenLoaded"
  /\ \E els \in ElementLists : current_jobs' = ExtractJobs(els)
  /\ browser' = "closed"
  /\ pc' = "ScrapeAttempted"
  /\ UNCHANGED <<run, JOBS_FILE, seen_jobs, new_jobs, all_job_ids, scrape_error,
                 notify, notify_error, raised_in, killed_at, file0, diffs, emails, saves,
                 reported, unsent, abnormal, interrupted>>

\* if not current_jobs: ... return
CheckJobs ==
  /\ pc = "ScrapeAttempted"
  /\ pc' = IF ShortCircuit(current_jobs) THEN "NoJobs" ELSE "JobsFound"
  /\ UNCHANGED <<run, JOBS_FILE, seen_jobs, current_jobs, new_jobs, all_job_ids,
                 browser, scrape_error, notify, notify_error, raised_in, killed_at, file0,
                 diffs, emails, saves, reported, unsent, abnormal, interrupted>>

\* seen_ids = set(seen_jobs); new_jobs = [...]
Diff ==
  /\ pc = "JobsFound"
  /\ new_jobs' = NewJobs(current_jobs, SetOf(seen_jobs))
  /\ diffs' = diffs + 1
  /\ pc' = "Diffed"
  /\ UNCHANGED <<run, JOBS_FILE, seen_jobs, current_jobs, all_job_ids, browser,
                 scrape_error, notify, notify_error, raised_in, killed_at, file0, emails,
                 saves, reported, unsent, abnormal, interrupted>>

\* if new_jobs: ... else: ...
CheckNew ==
  /\ pc = "Diffed"
  /\ pc' = IF HasNewJobs(new_jobs) THEN "HasNew" ELSE "NoNew"
  /\ UNCHANGED <<run, JOBS_FILE, seen_jobs, current_jobs, new_jobs, all_job_ids,
                 browser, scrape_error, notify, notify_error, raised_in, killed_at, file0,
                 diffs, emails, saves, reported, unsent, abnormal, interrupted>>

\* send_email(config, new_jobs)
SendEmail ==
  /\ pc = "HasNew"
  /\ emails' = emails + 1
  /\ \E error \in NotifyErrors :
       LET out == SendEmailOutcome(error)
       IN /\ notify' = out
          /\ notify_error' = error
          /\ pc' = IF out = "raised" THEN "Raised" ELSE "NotifyAttempted"
          /\ raised_in' = IF out = "raised" THEN "send_email" ELSE raised_in
          /\ abnormal' = (abnormal \/ out = "raised")
  /\ UNCHANGED <<run, JOBS_FILE, seen_jobs, current_jobs, new_jobs, all_job_ids,
                 browser, scrape_error, killed_at, file0, diffs, saves, reported, unsent,
                 interrupted>>

\* all_job_ids = list(seen_ids) + [...]; save_seen_jobs: open(JOBS_FILE, 'w')
SaveOpen ==
  /\ pc = "NotifyAttempted"
  /\ all_job_ids' \in AllJobIds(SetOf(seen_jobs), new_jobs)
  /\ saves' = saves + 1
  /\ JOBS_FILE' = Corrupt
  /\ pc' = "SaveOpened"
  /\ UNCHANGED <<run, seen_jobs, current_jobs, new_jobs, browser, scrape_error,
                 notify, notify_error, raised_in, killed_at, file0, diffs, emails, reported, unsent,
                 abnormal, interrupted>>

\* save_seen_jobs: json.dump(jobs, f, indent=2) and the close of the file
SaveDump ==
  /\ pc = "SaveOpened"
  /\ JOBS_FILE' = JsonFile(all_job_ids)
  /\ pc' = "StorePersisted"
  /\ UNCHANGED <<run, seen_jobs, current_jobs, new_jobs, all_job_ids, browser,
                 scrape_error, notify, notify_error, raised_in, killed_at, file0, diffs, emails,
                 saves, reported, unsent, abnormal, interrupted>>

\* main returns: after the guard, after "No new jobs found.", after the save
Return ==
  /\ pc \in {"NoJobs", "NoNew", "StorePersisted"}
  /\ pc' = "End"
  /\ UNCHANGED <<run, JOBS_FILE, seen_jobs, current_jobs, new_jobs, all_job_ids,
                 browser, scrape_error, notify, notify_error, raised_in, killed_at, file0,
                 diffs, emails, saves, reported, unsent, abnormal, interrupted>>

\* the process is stopped from outside (kill, power loss) between two steps
Kill ==
  /\ pc \notin Terminal
  /\ killed_at' = pc
  /\ pc' = "Killed"
  /\ abnormal' = TRUE
  /\ UNCHANGED <<run, JOBS_FILE, seen_jobs, current_jobs, new_jobs, all_job_ids,
                 browser, scrape_error, notify, notify_error, raised_in, file0, diffs, emails,
                 saves, reported, unsent, interrupted>>

\* the scheduler invokes the process again: fresh locals, the file stays
NextRun ==
  /\ pc \in Terminal
  /\ run < MaxRuns
  /\ run' = run + 1
  /\ pc' = "Start"
  /\ reported' = reported \cup SetOf(IdsOf(new_jobs))
  /\ unsent' = IF notify \in {"skipped", "failed"}
                 THEN unsent \cup SetOf(IdsOf(new_jobs))
                 ELSE unsent
  /\ interrupted' = IF killed_at \in {"NotifyAttempted", "SaveOpened"}
                      THEN [valid |-> TRUE, current |-> current_jobs,
                            new |-> new_jobs, file |-> file0]
                      ELSE NoRun
  /\ file0' = JOBS_FILE
  /\ seen_jobs' = <<>>
  /\ current_jobs' = <<>>
  /\ new_jobs' = <<>>
  /\ all_job_ids' = <<>>
  /\ browser' = "not_launched"
  /\ scrape_error' = "none"
  /\ notify' = "none"
  /\ notify_error' = "none"
  /\ raised_in' = "none"
  /\ killed_at' = "none"
  /\ diffs' = 0
  /\ emails' = 0
  /\ saves' = 0
  /\ UNCHANGED <<JOBS_FILE, abnormal>>

Next ==
  \/ LoadConfig
  \/ LoadSeen
  \/ ScrapeFails
  \/ ScrapeOK
  \/ CheckJobs
  \/ Diff
  \/ CheckNew
  \/ SendEmail
  \/ SaveOpen
  \/ SaveDump
  \/ Return
  \/ Kill
  \/ NextRun

Spec == Init /\ [][Next]_vars

\* ---------------------------------------------------------------------------
\* Properties
\* ---------------------------------------------------------------------------

NoDuplicates(s) == \A i, j \in DOMAIN s : i # j => s[i] # s[j]

PersistedIds == SetOf(JOBS_FILE.ids)

\* The records of L whose id is not in S, in L's order.
RECURSIVE NotSeen(_, _)
NotSeen(L, S) ==
  IF L = <<>> THEN <<>>
  ELSE IF Head(L).id \in S THEN NotSeen(Tail(L), S)
       ELSE <<Head(L)>> \o NotSeen(Tail(L), S)

\* scrape_jobs has returned to main (browser.close() ran in its finally block)
ScrapeReturned == browser = "closed"

\* C1: once main has computed the diff, new_jobs is exactly the subsequence of
\* the scraped list whose ids are not among the loaded seen ids, in order.
Thm_C1_DiffIsNotSeenSubsequence ==
  diffs > 0 => new_jobs = NotSeen(current_jobs, SetOf(seen_jobs))

Wit_C1_SeenA_ScrapedAB_NewB ==
  /\ diffs > 0
  /\ seen_jobs = <<"A">>
  /\ IdsOf(current_jobs) = <<"A", "B">>
  /\ IdsOf(new_jobs) = <<"B">>

\* C2: when scrape_jobs returned an empty list the run goes nowhere but to the
\* early return: no diff, no send_email, no save_seen_jobs, file as before.
Thm_C2_EmptyScrapeLeavesStore ==
  (ScrapeReturned /\ current_jobs = <<>>) =>
    /\ pc \in {"ScrapeAttempted", "NoJobs", "End", "Killed"}
    /\ diffs = 0
    /\ emails = 0
    /\ saves = 0
    /\ JOBS_FILE = file0

Wit_C2_PageFailureEndsRun ==
  /\ pc = "End"
  /\ scrape_error = "goto"
  /\ current_jobs = <<>>
  /\ file0.state = "json"
  /\ JOBS_FILE = file0

\* C3: a missing SMTP_PASSWORD or an exception while delivering does not leave
\* send_email: main goes on to the save, and once the save is done the file
\* holds every new id.
Thm_C3_NotifyFailureStillPersists ==
  notify_error \in {"smtp_password", "delivery"} =>
    /\ new_jobs # <<>>
    /\ pc \in {"NotifyAttempted", "SaveOpened", "StorePersisted", "End", "Killed"}
    /\ raised_in = "none"
    /\ pc \in {"StorePersisted", "End"} =>
         /\ JOBS_FILE.state = "json"
         /\ SetOf(IdsOf(new_jobs)) \subseteq PersistedIds

Wit_C3_DeliveryFailedIdsPersisted ==
  /\ pc = "End"
  /\ notify_error = "delivery"
  /\ SetOf(IdsOf(new_jobs)) = {"A", "B"}
  /\ PersistedIds = {"A", "B"}

\* C4 (as claimed): after load_config succeeded, no failure of a step of the
\* browser session and no failure inside send_email ends the run with an
\* uncaught exception.
Claim_C4_FailuresAbsorbed ==
  (scrape_error # "none" \/ notify_error # "none") => pc # "Raised"

\* C5 (as claimed): after the save of a run whose scraped list has no duplicate
\* ids, the file holds as many ids as it held before the run plus the number
\* of new jobs.
Claim_C5_SizeGrowsByK ==
  (pc \in {"StorePersisted", "End"} /\ saves = 1 /\ NoDuplicates(IdsOf(current_jobs))) =>
    Len(JOBS_FILE.ids) = Len(LoadSeenJobs(file0)) + Len(new_jobs)

\* C6 (as claimed): a written seen_jobs.json never holds an id twice.
Claim_C6_PersistedIdsUnique ==
  JOBS_FILE.state = "json" => NoDuplicates(JOBS_FILE.ids)

\* C7: within a run the position only moves along the edges of the run's state
\* machine (or out of it, by exit, exception or kill); save_seen_jobs and
\* send_email run at most once, the save only with a non-empty new list and
\* after send_email; with an empty new list nothing is sent or written.
RunEdges ==
  { <<"Start", "ConfigLoaded">>, <<"ConfigLoaded", "SeenLoaded">>,
    <<"SeenLoaded", "ScrapeAttempted">>,
    <<"ScrapeAttempted", "NoJobs">>, <<"ScrapeAttempted", "JobsFound">>,
    <<"NoJobs", "End">>, <<"JobsFound", "Diffed">>,
    <<"Diffed", "NoNew">>, <<"Diffed", "HasNew">>, <<"NoNew", "End">>,
    <<"HasNew", "NotifyAttempted">>, <<"NotifyAttempted", "SaveOpened">>,
    <<"SaveOpened", "StorePersisted">>, <<"StorePersisted", "End">> }

AbortEdge(from, to) == from \notin Terminal /\ to \in {"Exit1", "Raised", "Killed"}

Thm_C7_RunFollowsStateMachine ==
  /\ [][run' = run => (<<pc, pc'>> \in RunEdges \/ AbortEdge(pc, pc'))]_vars
  /\ [][run' # run => (pc \in Terminal /\ pc' = "Start")]_vars
  /\ [](/\ diffs <= 1 /\ emails <= 1 /\ saves <= 1
        /\ pc = "HasNew" => new_jobs # <<>>
        /\ pc = "NoNew" => new_jobs = <<>>
        /\ emails > 0 => new_jobs # <<>>
        /\ saves > 0 => (emails = 1 /\ new_jobs # <<>>)
        /\ saves = 0 => JOBS_FILE = file0
        /\ (diffs = 1 /\ new_jobs = <<>>) => (emails = 0 /\ saves = 0 /\ JOBS_FILE = file0))

Wit_C7_BothBranchesEnd ==
  /\ pc = "End"
  /\ run = 2
  /\ diffs = 1
  /\ new_jobs = <<>>
  /\ file0.state = "json"

\* C8 (as claimed): once scrape_jobs has returned or raised, a browser that was
\* launched has had close() called on it.
Claim_C8_LaunchedBrowserClosed ==
  (pc \notin {"Start", "ConfigLoaded", "SeenLoaded"}
     /\ killed_at \notin {"Start", "ConfigLoaded", "SeenLoaded"}
     /\ browser # "not_launched")
    => browser = "closed"

\* C9 (as claimed): a process stopped after send_email and before
\* save_seen_jobs has completed its write leaves the file as it was before the
\* run; the next run, scraping the same list, computes the same new list and
\* calls send_email again; nothing is written before send_email was called.
Claim_C9_CrashKeepsPreRunFile ==
  /\ (pc = "Killed" /\ killed_at \in {"NotifyAttempted", "SaveOpened"}) => JOBS_FILE = file0
  /\ (interrupted.valid /\ diffs = 1 /\ current_jobs = interrupted.current) =>
       /\ new_jobs = interrupted.new
       /\ pc = "End" => emails = 1
  /\ emails = 0 => JOBS_FILE = file0

\* C10: as long as every run so far terminated normally, no id of the new list
\* of an earlier run is in the new list of this run, and at the end of a run
\* the file holds every id it held before and every id reported so far.
Thm_C10_ReportedOnce ==
  ~abnormal =>
    /\ diffs > 0 => SetOf(IdsOf(new_jobs)) \cap reported = {}
    /\ pc \in {"Start", "End"} =>
         /\ JOBS_FILE.state # "corrupt"
         /\ SetOf(file0.ids) \subseteq PersistedIds
         /\ reported \subseteq PersistedIds

Wit_C10_SkippedIdNotReportedAgain ==
  /\ ~abnormal
  /\ run = 3
  /\ pc = "End"
  /\ "A" \in unsent
  /\ IdsOf(current_jobs) = <<"A", "B">>
  /\ IdsOf(new_jobs) = <<"B">>

====
